---- MODULE Spec2Model ----
(***************************************************************************)
(* A model of backend/server.py: the 5-box vocabulary trainer.             *)
(*                                                                         *)
(* The three MongoDB collections (students, words, progress) are sequences *)
(* of documents in insertion order; find_one and update_one act on the     *)
(* first document that matches.  A handler is a coroutine: a step of the   *)
(* model is one call of the store that it awaits together with the code up *)
(* to its next await, and between two steps of a handler the clock may     *)
(* move on and other handlers may run.  Where the code after an await      *)
(* reads the clock, that reading is a step of its own: the handler resumes *)
(* some time after the store has answered.  Strings are sequences of       *)
(* one-character strings, so that strip(), lower() and split(';') are      *)
(* computed.  The clock is a number of minutes since midnight of day 0     *)
(* (UTC).  The client decodes a stored timestamp as a datetime without     *)
(* tzinfo, unless the MONGO_URL of the deployment asks for timezone-aware  *)
(* ones; an exception that a handler does not catch is answered with       *)
(* status 500.  The documents' id, created_at and updated_at fields, which *)
(* no handler reads, are left out (a word keeps its id, which the handlers *)
(* do read).                                                               *)
(***************************************************************************)
EXTENDS Integers, Sequences, FiniteSets, TLC

VARIABLES
    students,   \* db.students: documents [code, name, class_level]
    words,      \* db.words: documents [id, class_level, english, turkish_meanings]
    progress,   \* db.progress: documents [student_code, word_id, box_number,
                \*                         last_studied_date]
    now,        \* datetime.now(timezone.utc), in minutes
    reqs,       \* the requests being served, each with the position of its
                \* handler (the await it is at) and the handler's local
                \* variables, or with its response
    tz_aware    \* whether AsyncIOMotorClient(mongo_url) decodes datetimes with
                \* tzinfo: the tz_aware option of MONGO_URL, off by default

vars == <<students, words, progress, now, reqs, tz_aware>>

----------------------------------------------------------------------------
(* Bounds of the model *)

\* days 0..MaxDay are explored
MaxDay == 1
\* an uploaded CSV file holds at most MaxRows rows
MaxRows == 1
\* the imports are followed while the catalog holds at most MaxWords words
MaxWords == 3

----------------------------------------------------------------------------
(* Strings *)

s_9011 == <<"9","0","1","1">>
s_9012 == <<"9","0","1","2">>
s_9999 == <<"9","9","9","9">>
s_Ali == <<"A","l","i">>
s_AliARIKAN == <<"A","l","i"," ","A","R","I","K","A","N">>
s_VeliSp == <<"V","e","l","i"," ">>
s_Veli == <<"V","e","l","i">>
s_Sp9011 == <<" ","9","0","1","1">>
s_5A == <<"5","A">>
s_6A == <<"6","A">>
s_hello == <<"h","e","l","l","o">>
s_Hello == <<"H","e","l","l","o">>
s_hi == <<"h","i">>
s_hey == <<"h","e","y">>
s_merhaba == <<"m","e","r","h","a","b","a">>
s_MerhabaSp == <<"M","e","r","h","a","b","a"," ">>
s_SpMERHABA == <<" ","M","E","R","H","A","B","A">>
s_wrong == <<"w","r","o","n","g">>
s_merhab == <<"m","e","r","h","a","b">>
s_mer_haba == <<"m","e","r"," ","h","a","b","a">>
s_selam == <<"s","e","l","a","m">>
s_SELAMSp == <<"S","E","L","A","M"," ">>
s_MERHABA_selam == <<"M","E","R","H","A","B","A",";","s","e","l","a","m">>
s_merhaba_ == <<"m","e","r","h","a","b","a",";">>
s_sp == <<" ">>
s_merhaba_selam == <<"m","e","r","h","a","b","a",";"," ","S","e","l","a","m">>
s_9012Nl == <<"9","0","1","2","\n">>
s_merhabaNl == <<"m","e","r","h","a","b","a","\n">>
s_cay == <<"ç","a","y">>
s_CAYNbsp == <<"Ç","A","Y"," ">>
s_csv == <<".","c","s","v">>
s_txt == <<".","t","x","t">>

\* str.lower() on one character of the model's alphabet, the characters
\* U+0000..U+00FF: the letters A..Z and the capital letters of U+00C0..U+00DE
\* have a lower-case letter, any other character is left as it is
LowerChar(c) ==
    LET upper == <<"A","B","C","D","E","F","G","H","I","J","K","L","M",
                   "N","O","P","Q","R","S","T","U","V","W","X","Y","Z",
                   "À","Á","Â","Ã","Ä","Å","Æ","Ç","È","É","Ê","Ë","Ì",
                   "Í","Î","Ï","Ð","Ñ","Ò","Ó","Ô","Õ","Ö","Ø","Ù","Ú",
                   "Û","Ü","Ý","Þ">>
        lower == <<"a","b","c","d","e","f","g","h","i","j","k","l","m",
                   "n","o","p","q","r","s","t","u","v","w","x","y","z",
                   "à","á","â","ã","ä","å","æ","ç","è","é","ê","ë","ì",
                   "í","î","ï","ð","ñ","ò","ó","ô","õ","ö","ø","ù","ú",
                   "û","ü","ý","þ">>
        at == {i \in 1..Len(upper) : upper[i] = c}
    IN IF at = {} THEN c ELSE lower[CHOOSE i \in at : TRUE]

Lower(s) == [i \in 1..Len(s) |-> LowerChar(s[i])]

\* the characters str.strip() removes, those for which str.isspace() holds:
\* \t \n \x0b \x0c \r \x1c \x1d \x1e \x1f, the blank, \x85 and \xa0
IsSpace(c) ==
    c \in {"\t", "\n", "", "\f", "\r", "", "", "", "",
           " ", "", " "}

RECURSIVE LStrip(_)
LStrip(s) == IF s = <<>> THEN s
             ELSE IF IsSpace(Head(s)) THEN LStrip(Tail(s)) ELSE s

RECURSIVE RStrip(_)
RStrip(s) == IF s = <<>> THEN s
             ELSE IF IsSpace(s[Len(s)]) THEN RStrip(SubSeq(s, 1, Len(s) - 1)) ELSE s

\* str.strip()
Strip(s) == RStrip(LStrip(s))

RECURSIVE SplitAcc(_, _, _)
SplitAcc(s, cur, acc) ==
    IF s = <<>> THEN Append(acc, cur)
    ELSE IF Head(s) = ";" THEN SplitAcc(Tail(s), <<>>, Append(acc, cur))
    ELSE SplitAcc(Tail(s), Append(cur, Head(s)), acc)

\* str.split(';')
Split(s) == SplitAcc(s, <<>>, <<>>)

\* str.endswith(suffix)
EndsWith(s, suffix) ==
    /\ Len(s) >= Len(suffix)
    /\ SubSeq(s, Len(s) - Len(suffix) + 1, Len(s)) = suffix

----------------------------------------------------------------------------
(* The clock *)

MinutesPerDay == 24 * 60

\* the times of day at which the clock is observed: 00:00, 00:01 and 23:59
TimesOfDay == {0, 1, 23 * 60 + 59}

Instants == {d * MinutesPerDay + m : d \in 0..MaxDay, m \in TimesOfDay}

\* last_studied_date of a word that was never answered
None == -1

\* datetime.replace(hour=0, minute=0, second=0, microsecond=0)
Midnight(t) == t - (t % MinutesPerDay)

\* what a call comes to: the value it returns, or the exception it raises
Returns(value) == [exception |-> "", value |-> value]
Raises(exception) == [exception |-> exception, value |-> FALSE]

\* is_midnight_passed(last_date) when datetime.now(timezone.utc) is t; aware
\* tells whether last_date, as the client decoded it, has tzinfo.  The
\* comparison of today_midnight, which has tzinfo, with a last_midnight that
\* has none raises TypeError
is_midnight_passed(last_date, aware, t) ==
    IF last_date = None THEN Returns(TRUE)
    ELSE IF ~aware THEN Raises("TypeError")
    ELSE Returns(Midnight(t) > Midnight(last_date))

\* datetime.now(timezone.utc) read n times while the clock stays at t
Steady(t, n) == [i \in 1..n |-> t]

----------------------------------------------------------------------------
(* The collections *)

\* find_one: of the indices of the documents that match, the first; 0 if none
FirstIndex(matches) ==
    IF matches = {} THEN 0
    ELSE CHOOSE i \in matches : \A j \in matches : i <= j

\* db.students.find_one({"code": code})
FindStudent(st, code) == FirstIndex({i \in 1..Len(st) : st[i].code = code})

\* a faulty variant: the first word of the catalog is found, whatever its id
FindWordById_first(ws, word_id) == IF ws = <<>> THEN 0 ELSE 1

\* db.words.find_one({"id": word_id})
FindWordById(ws, word_id) == FirstIndex({i \in 1..Len(ws) : ws[i].id = word_id})

\* db.words.find_one({"class_level": ..., "english": ...})
FindWordByEnglish(ws, class_level, english) ==
    FirstIndex({i \in 1..Len(ws) : /\ ws[i].class_level = class_level
                                   /\ ws[i].english = english})

\* db.progress.find_one({"student_code": ..., "word_id": ...})
FindProgress(pr, student_code, word_id) ==
    FirstIndex({i \in 1..Len(pr) : /\ pr[i].student_code = student_code
                                   /\ pr[i].word_id = word_id})

\* db.words.find({"class_level": ...}).to_list(None)
ClassWords(ws, class_level) == SelectSeq(ws, LAMBDA d : d.class_level = class_level)

\* a faulty variant: the new record is in box 2
NewProgress_box2(student_code, word_id) ==
    [student_code |-> student_code, word_id |-> word_id,
     box_number |-> 2, last_studied_date |-> None]

\* a faulty variant: the new record is dated
NewProgress_stamped(student_code, word_id) ==
    [student_code |-> student_code, word_id |-> word_id,
     box_number |-> 1, last_studied_date |-> 0]

\* Progress(student_code=..., word_id=..., box_number=1, last_studied_date=None)
NewProgress(student_code, word_id) ==
    [student_code |-> student_code, word_id |-> word_id,
     box_number |-> 1, last_studied_date |-> None]

\* Student(code=code, name=name, class_level=class_level)
NewStudent(code, name, class_level) ==
    [code |-> code, name |-> name, class_level |-> class_level]

\* a faulty variant: the update adds a student
UpdateStudent_append(st, code, name, class_level) ==
    Append(st, NewStudent(code, name, class_level))

\* db.students.update_one({"code": code},
\*     {"$set": {"name": name, "class_level": class_level}})
UpdateStudent(st, code, name, class_level) ==
    LET found == FindStudent(st, code)
    IN IF found = 0 THEN st
       ELSE [st EXCEPT ![found].name = name, ![found].class_level = class_level]

\* uuid.uuid4() of a new word: an id no word of the catalog has
NewWordId(ws) == Len(ws) + 1

----------------------------------------------------------------------------
(* Catalog ingestion *)

RECURSIVE UploadStudentsLoop(_, _, _, _)
\* the loop of upload_students over the rows of the file, when no other
\* request is served meanwhile
UploadStudentsLoop(rows, st, added, updated) ==
    IF rows = <<>> THEN [students |-> st, added |-> added, updated |-> updated]
    ELSE LET row == Head(rows) IN
         IF Len(row) # 3 THEN UploadStudentsLoop(Tail(rows), st, added, updated)
         ELSE LET code == Strip(row[1])
                  name == Strip(row[2])
                  class_level == Strip(row[3])
                  existing == FindStudent(st, code)
              IN IF existing # 0
                 THEN UploadStudentsLoop(Tail(rows),
                          UpdateStudent(st, code, name, class_level),
                          added, updated + 1)
                 ELSE UploadStudentsLoop(Tail(rows),
                          Append(st, NewStudent(code, name, class_level)),
                          added + 1, updated)

\* turkish_meanings = [meaning.strip() for meaning in turkish.split(';')]
Meanings(turkish) == LET parts == Split(turkish)
                     IN [i \in 1..Len(parts) |-> Strip(parts[i])]

\* Word(class_level=class_level, english=english,
\*      turkish_meanings=turkish_meanings), with the id it is given
NewWord(id, class_level, english, turkish) ==
    [id |-> id, class_level |-> class_level, english |-> english,
     turkish_meanings |-> Meanings(turkish)]

RECURSIVE UploadWordsLoop(_, _, _)
\* the loop of upload_words over the rows of the file, when no other request
\* is served meanwhile
UploadWordsLoop(rows, ws, added) ==
    IF rows = <<>> THEN [words |-> ws, added |-> added]
    ELSE LET row == Head(rows) IN
         IF Len(row) # 3 THEN UploadWordsLoop(Tail(rows), ws, added)
         ELSE LET class_level == Strip(row[1])
                  english == Strip(row[2])
                  turkish == Strip(row[3])
                  existing == FindWordByEnglish(ws, class_level, Lower(english))
              IN IF existing = 0
                 THEN UploadWordsLoop(Tail(rows),
                          Append(ws, NewWord(NewWordId(ws), class_level,
                                             english, turkish)),
                          added + 1)
                 ELSE UploadWordsLoop(Tail(rows), ws, added)

----------------------------------------------------------------------------
(* The scheduler *)

\* the place of item in sorted, a list sorted by box descending: after every
\* item whose box is not smaller (list.sort is stable, also with reverse=True)
RECURSIVE InsertDesc(_, _)
InsertDesc(sorted, item) ==
    IF sorted = <<>> THEN <<item>>
    ELSE IF Head(sorted).box >= item.box
         THEN <<Head(sorted)>> \o InsertDesc(Tail(sorted), item)
         ELSE <<item>> \o sorted

RECURSIVE SortAscFrom(_, _)
\* a stable sort by box ascending, by insertion
SortAscFrom(items, sorted) ==
    IF items = <<>> THEN sorted
    ELSE LET item == Head(items)
             lower == SelectSeq(sorted, LAMBDA x : x.box <= item.box)
             upper == SelectSeq(sorted, LAMBDA x : x.box > item.box)
         IN SortAscFrom(Tail(items), lower \o <<item>> \o upper)

RECURSIVE SortDescFrom(_, _)
SortDescFrom(items, sorted) ==
    IF items = <<>> THEN sorted
    ELSE SortDescFrom(Tail(items), InsertDesc(sorted, Head(items)))

\* result.sort(key=lambda x: x["box"])
SortByBoxAsc(items) == SortAscFrom(items, <<>>)

\* available_words.sort(key=lambda x: x["box"], reverse=True)
SortByBoxDesc(items) == SortDescFrom(items, <<>>)

\* a faulty variant: a box-5 word is surfaced like any other
Surfaced_nobox5(p, aware, t) == is_midnight_passed(p.last_studied_date, aware, t)

\* whether the loop of get_student_words_for_study appends the word of the
\* existing progress record p at time t, unless is_midnight_passed raises
Surfaced(p, aware, t) ==
    LET can_study_today == is_midnight_passed(p.last_studied_date, aware, t)
    IN IF can_study_today.exception # "" THEN can_study_today
       ELSE IF p.box_number = 5
       THEN Returns(can_study_today.value /\ p.last_studied_date = None)
       ELSE can_study_today

RECURSIVE StudyLoop(_, _, _, _, _, _)
\* the loop of get_student_words_for_study over class_words when no other
\* request is served meanwhile, clock[i] being the instant of its i-th turn:
\* the progress collection with the records it creates, and words_to_study;
\* when is_midnight_passed raises the loop ends there, with the records it
\* has created so far
StudyLoop(student_code, class_words, pr, acc, aware, clock) ==
    IF class_words = <<>>
    THEN [progress |-> pr, words_to_study |-> acc, exception |-> ""]
    ELSE LET word == Head(class_words)
             found == FindProgress(pr, student_code, word.id)
         IN IF found = 0
            THEN StudyLoop(student_code, Tail(class_words),
                           Append(pr, NewProgress(student_code, word.id)),
                           Append(acc, [word |-> word, box |-> 1, can_study |-> TRUE]),
                           aware, Tail(clock))
            ELSE LET p == pr[found]
                     entry == [word |-> word, box |-> p.box_number, can_study |-> TRUE]
                     surfaced == Surfaced(p, aware, Head(clock))
                 IN IF surfaced.exception # ""
                    THEN [progress |-> pr, words_to_study |-> acc,
                          exception |-> surfaced.exception]
                    ELSE IF surfaced.value
                    THEN StudyLoop(student_code, Tail(class_words), pr,
                                   Append(acc, entry), aware, Tail(clock))
                    ELSE StudyLoop(student_code, Tail(class_words), pr, acc,
                                   aware, Tail(clock))

\* the order in which get_student_words_for_study returns words_to_study
StudyOrder(words_to_study) ==
    LET available_words ==
            SelectSeq(words_to_study, LAMBDA w : w.can_study /\ w.box < 5)
        box5_words ==
            SelectSeq(words_to_study, LAMBDA w : w.can_study /\ w.box = 5)
    IN SortByBoxDesc(available_words) \o box5_words

\* get_student_words_for_study(student_code) on the collections st, ws, pr,
\* the i-th turn of its loop at the instant clock[i]: the list it returns and
\* the progress collection it leaves, or the exception it raises (and then no
\* list)
get_student_words_for_study(st, ws, pr, student_code, aware, clock) ==
    LET student == FindStudent(st, student_code) IN
    IF student = 0 THEN [progress |-> pr, list |-> <<>>, exception |-> ""]
    ELSE LET class_words == ClassWords(ws, st[student].class_level)
             scan == StudyLoop(student_code, class_words, pr, <<>>, aware, clock)
         IN [progress |-> scan.progress,
             list |-> IF scan.exception # "" THEN <<>>
                      ELSE StudyOrder(scan.words_to_study),
             exception |-> scan.exception]

\* a faulty variant: a wrong answer moves the word one box down
next_box_demote(current_box, is_correct) ==
    IF is_correct /\ current_box < 5 THEN current_box + 1
    ELSE IF is_correct /\ current_box = 5 THEN 5
    ELSE IF current_box > 1 THEN current_box - 1 ELSE current_box

\* a faulty variant: a correct answer always moves the word one box up
next_box_unbounded(current_box, is_correct) ==
    IF is_correct THEN current_box + 1 ELSE current_box

\* new_box of submit_answer: the box transition
next_box(current_box, is_correct) ==
    IF is_correct /\ current_box < 5 THEN current_box + 1
    ELSE IF is_correct /\ current_box = 5 THEN 5
    ELSE current_box

\* the feedback message of submit_answer: its template and the box it names
message(current_box, is_correct) ==
    IF is_correct /\ current_box < 5
    THEN [template |-> "promoted", box |-> current_box + 1]
    ELSE IF is_correct /\ current_box = 5
    THEN [template |-> "stays_in_last_box", box |-> 5]
    ELSE [template |-> "wrong_stays", box |-> current_box]

\* a faulty variant: the answer is compared without lower()
IsCorrect_nolower(turkish_meanings, answer) ==
    LET user_answer == Strip(answer)
    IN \E i \in 1..Len(turkish_meanings) :
           Lower(Strip(turkish_meanings[i])) = user_answer

\* any(meaning.strip().lower() == user_answer for meaning in turkish_meanings)
IsCorrect(turkish_meanings, answer) ==
    LET user_answer == Lower(Strip(answer))
    IN \E i \in 1..Len(turkish_meanings) :
           Lower(Strip(turkish_meanings[i])) = user_answer

\* a faulty variant: a pair without a progress record counts as box 0
CurrentBox_zero(pr, student_code, word_id) ==
    LET found == FindProgress(pr, student_code, word_id)
    IN IF found = 0 THEN 0 ELSE pr[found].box_number

\* current_box = progress["box_number"] if progress else 1
CurrentBox(pr, student_code, word_id) ==
    LET found == FindProgress(pr, student_code, word_id)
    IN IF found = 0 THEN 1 ELSE pr[found].box_number

\* a faulty variant: the update sets box_number and leaves the date
UpsertProgress_boxonly(pr, student_code, word_id, box, date) ==
    LET found == FindProgress(pr, student_code, word_id)
    IN IF found = 0
       THEN Append(pr, [student_code |-> student_code, word_id |-> word_id,
                        box_number |-> box, last_studied_date |-> None])
       ELSE [pr EXCEPT ![found].box_number = box]

\* a faulty variant: the update goes to the student's first record, whatever
\* its word
UpsertProgress_anyword(pr, student_code, word_id, box, date) ==
    LET found == FirstIndex({i \in 1..Len(pr) :
                                pr[i].student_code = student_code})
    IN IF found = 0
       THEN Append(pr, [student_code |-> student_code, word_id |-> word_id,
                        box_number |-> box, last_studied_date |-> date])
       ELSE [pr EXCEPT ![found].box_number = box,
                       ![found].last_studied_date = date]

\* db.progress.update_one({student_code, word_id},
\*     {"$set": {box_number, last_studied_date, updated_at}}, upsert=True)
UpsertProgress(pr, student_code, word_id, box, date) ==
    LET found == FindProgress(pr, student_code, word_id)
    IN IF found = 0
       THEN Append(pr, [student_code |-> student_code, word_id |-> word_id,
                        box_number |-> box, last_studied_date |-> date])
       ELSE [pr EXCEPT ![found].box_number = box,
                       ![found].last_studied_date = date]

----------------------------------------------------------------------------
(* Statistics and word list *)

\* box_distribution of get_student_stats: a key for each of the boxes 1..5,
\* zero at first, and the count of each group of the $match/$group pipeline
\* under the key of its box_number
BoxDistribution(pr, student_code) ==
    LET groups == {pr[i].box_number :
                      i \in {k \in 1..Len(pr) : pr[k].student_code = student_code}}
    IN [b \in (1..5) \cup groups |->
           Cardinality({i \in 1..Len(pr) : /\ pr[i].student_code = student_code
                                           /\ pr[i].box_number = b})]

\* count_documents({student_code, last_studied_date: {"$gte": today_start}})
WordsStudiedToday(pr, student_code, t) ==
    Cardinality({i \in 1..Len(pr) : /\ pr[i].student_code = student_code
                                    /\ pr[i].last_studied_date # None
                                    /\ pr[i].last_studied_date >= Midnight(t)})

\* the entry of get_student_words for the word
WordEntry(word, pr, student_code) ==
    LET found == FindProgress(pr, student_code, word.id)
    IN [id |-> word.id, english |-> word.english,
        turkish_meanings |-> word.turkish_meanings,
        box |-> IF found = 0 THEN 1 ELSE pr[found].box_number,
        last_studied |-> IF found = 0 THEN None
                         ELSE pr[found].last_studied_date]

----------------------------------------------------------------------------
(* Requests *)

StudentCodes == {s_9011, s_9012}

StudentRows == {<<s_9011, s_Ali, s_5A>>, <<s_9011, s_Ali, s_6A>>, <<s_9011, s_Ali>>}

WordRows == {<<s_5A, s_hello, s_merhaba_selam>>, <<s_5A, s_hello>>}

Answers == {s_SpMERHABA, s_wrong}

FileNames == {<<"f">> \o s_csv, <<"f">> \o s_txt}

Passwords == {"sefer1295", "wrongpassword"}

\* the files of at most MaxRows rows drawn from rows
Files(rows) == UNION {[1..n -> rows] : n \in 0..MaxRows}

\* hashlib.sha256(...).hexdigest(), taken as injective
Sha256(password) == <<"sha256", password>>

ADMIN_PASSWORD_HASH == Sha256("sefer1295")

\* the requests that the server serves at the same time
Slots == {1, 2}

IdleRequest == [pc |-> "idle", op |-> "none"]

Init ==
    /\ students = <<>>
    /\ words = <<>>
    /\ progress = <<>>
    /\ now = 0
    /\ reqs = [i \in Slots |-> IdleRequest]
    /\ tz_aware \in BOOLEAN

\* the clock moves on, to one of the instants
Advance(instants) ==
    /\ \E t \in instants : t > now /\ now' = t
    /\ UNCHANGED <<students, words, progress, reqs, tz_aware>>

\* the handler of the request in slot i has run to its next await, or to its
\* end, and stands at r
Goes(i, r) == reqs' = [reqs EXCEPT ![i] = r]

\* the request r when its handler has returned, or raised, with the response
Done(r, response) == [pc |-> "done", op |-> r.op, response |-> response]

\* no request is being served in slot i
Free(i) == reqs[i].pc \in {"idle", "done"}

\* a request arrives in slot i, where no request is being served, and its
\* handler runs to its first await
Accept(i, request) ==
    /\ Free(i)
    /\ Goes(i, request)
    /\ UNCHANGED <<students, words, progress, now, tz_aware>>

\* the client of slot i is through with the response
Return(i) ==
    /\ reqs[i].pc = "done"
    /\ Goes(i, IdleRequest)
    /\ UNCHANGED <<students, words, progress, now, tz_aware>>

\* the response to a request whose handler raised an exception it does not
\* catch: 500 Internal Server Error
ServerError(op, student_code) ==
    [op |-> op, student_code |-> student_code, status |-> 500]

----------------------------------------------------------------------------
(* POST /auth/student and POST /auth/admin *)

\* POST /auth/student as it arrives: the handler is at db.students.find_one
StudentLoginRequest(code) ==
    [pc |-> "login_student", op |-> "auth_student", code |-> code]

\* student_login: await db.students.find_one, and the response
student_login(i) ==
    /\ reqs[i].pc = "login_student"
    /\ LET r == reqs[i]
           student == FindStudent(students, r.code)
       IN Goes(i, Done(r,
              IF student = 0
              THEN [op |-> "auth_student", code |-> r.code, status |-> 404]
              ELSE [op |-> "auth_student", code |-> r.code, status |-> 200,
                    student |-> students[student]]))
    /\ UNCHANGED <<students, words, progress, now, tz_aware>>

\* admin_login awaits nothing: POST /auth/admin has its response as it arrives
admin_login(password) ==
    [pc |-> "done", op |-> "auth_admin",
     response |-> [op |-> "auth_admin",
                   status |-> IF Sha256(password) # ADMIN_PASSWORD_HASH
                              THEN 401 ELSE 200]]

----------------------------------------------------------------------------
(* GET /study/{student_code}/next-word and GET /student/{student_code}/stats *)

\* the response of get_next_word to words_to_study
NextWordResponse(student_code, words_to_study) ==
    IF words_to_study = <<>>
    THEN [op |-> "next_word", student_code |-> student_code, status |-> 200,
          completed |-> TRUE]
    ELSE [op |-> "next_word", student_code |-> student_code, status |-> 200,
          completed |-> FALSE,
          word_id |-> words_to_study[1].word.id,
          english |-> words_to_study[1].word.english,
          current_box |-> words_to_study[1].box,
          remaining_words |-> Len(words_to_study)]

\* GET /study/{student_code}/next-word as it arrives: get_next_word has called
\* get_student_words_for_study, which is at db.students.find_one
NextWordRequest(student_code) ==
    [pc |-> "study_student", op |-> "next_word", student_code |-> student_code,
     reads |-> <<>>]

\* GET /student/{student_code}/stats as it arrives: get_student_stats is at
\* db.students.find_one
StatsRequest(student_code) ==
    [pc |-> "stats_student", op |-> "stats", student_code |-> student_code,
     reads |-> <<>>]

\* the request r once get_student_words_for_study has returned
\* words_to_study; reads holds total_words, box_distribution and
\* words_studied_today of a stats request
StudyDone(r, words_to_study) ==
    Done(r, IF r.op = "next_word"
            THEN NextWordResponse(r.student_code, StudyOrder(words_to_study))
            ELSE [op |-> "stats", student_code |-> r.student_code,
                  status |-> 200,
                  total_words |-> r.reads[1], box_distribution |-> r.reads[2],
                  words_studied_today |-> r.reads[3],
                  next_study_words |-> Len(StudyOrder(words_to_study))])

\* the request r when is_midnight_passed raised in the loop of
\* get_student_words_for_study
StudyFailed(r) == Done(r, ServerError(r.op, r.student_code))

\* the request r with the rest of the loop of get_student_words_for_study
\* before it: at the next find_one, or done when no word is left
StudyAdvance(r, class_words, words_to_study) ==
    IF class_words = <<>> THEN StudyDone(r, words_to_study)
    ELSE [pc |-> "study_progress", op |-> r.op,
          student_code |-> r.student_code, reads |-> r.reads,
          class_words |-> class_words, words_to_study |-> words_to_study]

\* get_student_stats: await db.students.find_one
StatsStudentStep(i) ==
    /\ reqs[i].pc = "stats_student"
    /\ LET r == reqs[i]
           student == FindStudent(students, r.student_code)
       IN Goes(i, IF student = 0
                  THEN Done(r, [op |-> "stats", student_code |-> r.student_code,
                                status |-> 404])
                  ELSE [pc |-> "stats_total", op |-> r.op,
                        student_code |-> r.student_code, reads |-> r.reads,
                        class_level |-> students[student].class_level])
    /\ UNCHANGED <<students, words, progress, now, tz_aware>>

\* get_student_stats: await db.words.count_documents
StatsTotalStep(i) ==
    /\ reqs[i].pc = "stats_total"
    /\ LET r == reqs[i] IN
       Goes(i, [pc |-> "stats_boxes", op |-> r.op,
                student_code |-> r.student_code,
                reads |-> <<Len(ClassWords(words, r.class_level))>>])
    /\ UNCHANGED <<students, words, progress, now, tz_aware>>

\* get_student_stats: await db.progress.aggregate, whose groups fill
\* box_distribution
StatsBoxesStep(i) ==
    /\ reqs[i].pc = "stats_boxes"
    /\ LET r == reqs[i] IN
       Goes(i, [pc |-> "today_start", op |-> r.op,
                student_code |-> r.student_code,
                reads |-> Append(r.reads,
                                 BoxDistribution(progress, r.student_code))])
    /\ UNCHANGED <<students, words, progress, now, tz_aware>>

\* get_student_stats resumes with the groups and reads the clock for
\* today_start, the filter of the count_documents it calls next
TodayStartStep(i) ==
    /\ reqs[i].pc = "today_start"
    /\ LET r == reqs[i] IN
       Goes(i, [pc |-> "stats_today", op |-> r.op,
                student_code |-> r.student_code, reads |-> r.reads,
                today_start |-> Midnight(now)])
    /\ UNCHANGED <<students, words, progress, now, tz_aware>>

\* get_student_stats: the second await db.progress.count_documents; the
\* handler then calls get_student_words_for_study
StatsTodayStep(i) ==
    /\ reqs[i].pc = "stats_today"
    /\ LET r == reqs[i] IN
       Goes(i, [pc |-> "study_student", op |-> r.op,
                student_code |-> r.student_code,
                reads |-> Append(r.reads,
                                 WordsStudiedToday(progress, r.student_code,
                                                   r.today_start))])
    /\ UNCHANGED <<students, words, progress, now, tz_aware>>

\* get_student_words_for_study: await db.students.find_one
StudyStudentStep(i) ==
    /\ reqs[i].pc = "study_student"
    /\ LET r == reqs[i]
           student == FindStudent(students, r.student_code)
       IN Goes(i, IF student = 0 THEN StudyDone(r, <<>>)
                  ELSE [pc |-> "study_words", op |-> r.op,
                        student_code |-> r.student_code, reads |-> r.reads,
                        class_level |-> students[student].class_level])
    /\ UNCHANGED <<students, words, progress, now, tz_aware>>

\* get_student_words_for_study: await db.words.find(...).to_list
StudyWordsStep(i) ==
    /\ reqs[i].pc = "study_words"
    /\ LET r == reqs[i] IN
       Goes(i, StudyAdvance(r, ClassWords(words, r.class_level), <<>>))
    /\ UNCHANGED <<students, words, progress, now, tz_aware>>

\* one turn of the loop, await db.progress.find_one: without a record the
\* request goes on to insert one, with a record it goes on to the midnight
\* rule
StudyProgressStep(i) ==
    /\ reqs[i].pc = "study_progress"
    /\ LET r == reqs[i]
           word == Head(r.class_words)
           found == FindProgress(progress, r.student_code, word.id)
       IN Goes(i,
              IF found = 0
              THEN [pc |-> "study_insert", op |-> r.op,
                    student_code |-> r.student_code, reads |-> r.reads,
                    class_words |-> r.class_words,
                    words_to_study |-> r.words_to_study]
              ELSE [pc |-> "is_midnight_passed", op |-> r.op,
                    student_code |-> r.student_code, reads |-> r.reads,
                    class_words |-> r.class_words,
                    words_to_study |-> r.words_to_study,
                    progress |-> progress[found]])
    /\ UNCHANGED <<students, words, progress, now, tz_aware>>

\* the loop resumes with the record it found: is_midnight_passed reads the
\* clock, the word is appended or left out, and the loop goes on, unless
\* is_midnight_passed raises
MidnightPassedStep(i) ==
    /\ reqs[i].pc = "is_midnight_passed"
    /\ LET r == reqs[i]
           word == Head(r.class_words)
           surfaced == Surfaced(r.progress, tz_aware, now)
       IN Goes(i,
              IF surfaced.exception # "" THEN StudyFailed(r)
              ELSE StudyAdvance(r, Tail(r.class_words),
                       IF surfaced.value
                       THEN Append(r.words_to_study,
                                   [word |-> word,
                                    box |-> r.progress.box_number,
                                    can_study |-> TRUE])
                       ELSE r.words_to_study))
    /\ UNCHANGED <<students, words, progress, now, tz_aware>>

\* the loop's await db.progress.insert_one, and on to the next word
StudyInsertStep(i) ==
    /\ reqs[i].pc = "study_insert"
    /\ LET r == reqs[i]
           word == Head(r.class_words)
       IN /\ progress' = Append(progress, NewProgress(r.student_code, word.id))
          /\ Goes(i, StudyAdvance(r, Tail(r.class_words),
                         Append(r.words_to_study,
                                [word |-> word, box |-> 1, can_study |-> TRUE])))
    /\ UNCHANGED <<students, words, now, tz_aware>>

\* get_student_words_for_study in the request of slot i, from one await to
\* the next
StudySteps(i) ==
    \/ StudyStudentStep(i)
    \/ StudyWordsStep(i)
    \/ StudyProgressStep(i)
    \/ MidnightPassedStep(i)
    \/ StudyInsertStep(i)

\* GET /study/{student_code}/next-word: the handler of the request in slot i
\* runs from one await to the next
get_next_word(i) ==
    /\ reqs[i].op = "next_word"
    /\ StudySteps(i)

\* GET /student/{student_code}/stats: the handler of the request in slot i
\* runs from one await to the next
get_student_stats(i) ==
    /\ reqs[i].op = "stats"
    /\ \/ StatsStudentStep(i)
       \/ StatsTotalStep(i)
       \/ StatsBoxesStep(i)
       \/ TodayStartStep(i)
       \/ StatsTodayStep(i)
       \/ StudySteps(i)

----------------------------------------------------------------------------
(* POST /study/answer *)

\* a faulty variant: the client's is_correct flag is returned as the verdict
StudyResponse_trusting(session, word, is_correct, current_box) ==
    [op |-> "answer", student_code |-> session.student_code,
     answer |-> session.answer, client_is_correct |-> session.is_correct,
     status |-> 200, word_id |-> session.word_id, english |-> word.english,
     is_correct |-> session.is_correct,
     correct_answers |-> word.turkish_meanings,
     new_box |-> next_box(current_box, session.is_correct),
     message |-> message(current_box, session.is_correct)]

\* the response of submit_answer
StudyResponse(session, word, is_correct, current_box) ==
    [op |-> "answer", student_code |-> session.student_code,
     answer |-> session.answer, client_is_correct |-> session.is_correct,
     status |-> 200, word_id |-> session.word_id, english |-> word.english,
     is_correct |-> is_correct, correct_answers |-> word.turkish_meanings,
     new_box |-> next_box(current_box, is_correct),
     message |-> message(current_box, is_correct)]

\* the response of submit_answer when no word has the id of the session
WordNotFound(session) ==
    [op |-> "answer", student_code |-> session.student_code,
     answer |-> session.answer, client_is_correct |-> session.is_correct,
     status |-> 404, word_id |-> session.word_id]

\* what submit_answer does with the session when no other request is served
\* meanwhile and it reads the clock at t: the progress collection it leaves
\* and its response
submit_answer_result(session, t) ==
    LET word == FindWordById(words, session.word_id) IN
    IF word = 0
    THEN [progress |-> progress, response |-> WordNotFound(session)]
    ELSE LET is_correct == IsCorrect(words[word].turkish_meanings, session.answer)
             current_box == CurrentBox(progress, session.student_code,
                                       session.word_id)
             new_box == next_box(current_box, is_correct)
         IN [progress |-> UpsertProgress(progress, session.student_code,
                                         session.word_id, new_box, t),
             response |-> StudyResponse(session, words[word], is_correct,
                                        current_box)]

\* POST /study/answer as it arrives: submit_answer is at db.words.find_one;
\* box_on_arrival is the pair's box at that moment
AnswerRequest(session) ==
    [pc |-> "find_word", op |-> "answer", session |-> session,
     box_on_arrival |-> CurrentBox(progress, session.student_code,
                                   session.word_id)]

\* the request r of submit_answer with its response
AnswerDone(r, response) ==
    [pc |-> "done", op |-> r.op, session |-> r.session,
     box_on_arrival |-> r.box_on_arrival, response |-> response]

\* submit_answer: await db.words.find_one, and the answer check
FindWordStep(i) ==
    /\ reqs[i].pc = "find_word"
    /\ LET r == reqs[i]
           word == FindWordById(words, r.session.word_id)
       IN Goes(i, IF word = 0 THEN AnswerDone(r, WordNotFound(r.session))
                  ELSE [pc |-> "find_progress", op |-> r.op,
                        session |-> r.session,
                        box_on_arrival |-> r.box_on_arrival,
                        word |-> words[word],
                        is_correct |-> IsCorrect(words[word].turkish_meanings,
                                                 r.session.answer)])
    /\ UNCHANGED <<students, words, progress, now, tz_aware>>

\* submit_answer: await db.progress.find_one, which gives current_box
FindProgressStep(i) ==
    /\ reqs[i].pc = "find_progress"
    /\ LET r == reqs[i] IN
       Goes(i, [pc |-> "last_studied_date", op |-> r.op, session |-> r.session,
                box_on_arrival |-> r.box_on_arrival, word |-> r.word,
                is_correct |-> r.is_correct,
                current_box |-> CurrentBox(progress, r.session.student_code,
                                           r.session.word_id)])
    /\ UNCHANGED <<students, words, progress, now, tz_aware>>

\* submit_answer resumes with the record: the box transition, and the clock
\* read for last_studied_date as the update_one it calls next is put together
LastStudiedDateStep(i) ==
    /\ reqs[i].pc = "last_studied_date"
    /\ LET r == reqs[i] IN
       Goes(i, [pc |-> "update", op |-> r.op, session |-> r.session,
                box_on_arrival |-> r.box_on_arrival, word |-> r.word,
                is_correct |-> r.is_correct, current_box |-> r.current_box,
                last_studied_date |-> now])
    /\ UNCHANGED <<students, words, progress, now, tz_aware>>

\* submit_answer: await db.progress.update_one, and the response
UpdateStep(i) ==
    /\ reqs[i].pc = "update"
    /\ LET r == reqs[i]
           new_box == next_box(r.current_box, r.is_correct)
       IN /\ progress' = UpsertProgress(progress, r.session.student_code,
                                        r.session.word_id, new_box,
                                        r.last_studied_date)
          /\ Goes(i, AnswerDone(r, StudyResponse(r.session, r.word,
                                                 r.is_correct, r.current_box)))
    /\ UNCHANGED <<students, words, now, tz_aware>>

\* POST /study/answer: the handler of the request in slot i runs from one
\* await to the next
submit_answer(i) ==
    \/ FindWordStep(i)
    \/ FindProgressStep(i)
    \/ LastStudiedDateStep(i)
    \/ UpdateStep(i)

----------------------------------------------------------------------------
(* GET /student/{student_code}/words *)

\* GET /student/{student_code}/words as it arrives: get_student_words is at
\* db.students.find_one
WordsRequest(student_code) ==
    [pc |-> "list_student", op |-> "words", student_code |-> student_code]

\* the request r with the rest of the loop of get_student_words before it: at
\* the next find_one, or done, with the sorted result, when no word is left
ListAdvance(r, class_words, result) ==
    IF class_words = <<>>
    THEN Done(r, [op |-> "words", student_code |-> r.student_code,
                  status |-> 200, result |-> SortByBoxAsc(result)])
    ELSE [pc |-> "list_progress", op |-> r.op,
          student_code |-> r.student_code,
          class_words |-> class_words, result |-> result]

\* get_student_words: await db.students.find_one
ListStudentStep(i) ==
    /\ reqs[i].pc = "list_student"
    /\ LET r == reqs[i]
           student == FindStudent(students, r.student_code)
       IN Goes(i, IF student = 0
                  THEN Done(r, [op |-> "words", student_code |-> r.student_code,
                                status |-> 404])
                  ELSE [pc |-> "list_words", op |-> r.op,
                        student_code |-> r.student_code,
                        class_level |-> students[student].class_level])
    /\ UNCHANGED <<students, words, progress, now, tz_aware>>

\* get_student_words: await db.words.find(...).to_list
ListWordsStep(i) ==
    /\ reqs[i].pc = "list_words"
    /\ LET r == reqs[i] IN
       Goes(i, ListAdvance(r, ClassWords(words, r.class_level), <<>>))
    /\ UNCHANGED <<students, words, progress, now, tz_aware>>

\* one turn of the loop: await db.progress.find_one, and the word's entry
ListProgressStep(i) ==
    /\ reqs[i].pc = "list_progress"
    /\ LET r == reqs[i] IN
       Goes(i, ListAdvance(r, Tail(r.class_words),
                   Append(r.result,
                          WordEntry(Head(r.class_words), progress,
                                    r.student_code))))
    /\ UNCHANGED <<students, words, progress, now, tz_aware>>

\* GET /student/{student_code}/words: the handler of the request in slot i
\* runs from one await to the next
get_student_words(i) ==
    \/ ListStudentStep(i)
    \/ ListWordsStep(i)
    \/ ListProgressStep(i)

----------------------------------------------------------------------------
(* POST /admin/upload-students and POST /admin/upload-words *)

\* the rows from the first one that has three fields: the loops skip the
\* others without an await
RECURSIVE FromFullRow(_)
FromFullRow(rows) ==
    IF rows = <<>> THEN rows
    ELSE IF Len(Head(rows)) # 3 THEN FromFullRow(Tail(rows)) ELSE rows

\* POST /admin/upload-students as it arrives: upload_students refuses a file
\* that is not named .csv, and else is at file.read
UploadStudentsRequest(filename, rows) ==
    IF ~EndsWith(filename, s_csv)
    THEN [pc |-> "done", op |-> "upload_students",
          response |-> [op |-> "upload_students", status |-> 400]]
    ELSE [pc |-> "students_read", op |-> "upload_students", rows |-> rows,
          students_added |-> 0, students_updated |-> 0]

\* the request r with the rows that are left of the file: at the find_one of
\* the next row of three fields, or done when there is none
StudentsAdvance(r, rows, students_added, students_updated) ==
    IF FromFullRow(rows) = <<>>
    THEN Done(r, [op |-> "upload_students", status |-> 200,
                  students_added |-> students_added,
                  students_updated |-> students_updated])
    ELSE [pc |-> "students_find", op |-> r.op, rows |-> FromFullRow(rows),
          students_added |-> students_added,
          students_updated |-> students_updated]

\* upload_students: await file.read
StudentsReadStep(i) ==
    /\ reqs[i].pc = "students_read"
    /\ LET r == reqs[i] IN
       Goes(i, StudentsAdvance(r, r.rows, r.students_added, r.students_updated))
    /\ UNCHANGED <<students, words, progress, now, tz_aware>>

\* upload_students: await db.students.find_one for the row
StudentsFindStep(i) ==
    /\ reqs[i].pc = "students_find"
    /\ LET r == reqs[i]
           existing == FindStudent(students, Strip(Head(r.rows)[1]))
       IN Goes(i, [pc |-> IF existing # 0 THEN "students_update"
                          ELSE "students_insert",
                   op |-> r.op, rows |-> r.rows,
                   students_added |-> r.students_added,
                   students_updated |-> r.students_updated])
    /\ UNCHANGED <<students, words, progress, now, tz_aware>>

\* upload_students: await db.students.update_one, and on to the next row
StudentsUpdateStep(i) ==
    /\ reqs[i].pc = "students_update"
    /\ LET r == reqs[i]
           row == Head(r.rows)
       IN /\ students' = UpdateStudent(students, Strip(row[1]), Strip(row[2]),
                                       Strip(row[3]))
          /\ Goes(i, StudentsAdvance(r, Tail(r.rows), r.students_added,
                                     r.students_updated + 1))
    /\ UNCHANGED <<words, progress, now, tz_aware>>

\* upload_students: await db.students.insert_one, and on to the next row
StudentsInsertStep(i) ==
    /\ reqs[i].pc = "students_insert"
    /\ LET r == reqs[i]
           row == Head(r.rows)
       IN /\ students' = Append(students,
                                NewStudent(Strip(row[1]), Strip(row[2]),
                                           Strip(row[3])))
          /\ Goes(i, StudentsAdvance(r, Tail(r.rows), r.students_added + 1,
                                     r.students_updated))
    /\ UNCHANGED <<words, progress, now, tz_aware>>

\* POST /admin/upload-students: the handler of the request in slot i runs
\* from one await to the next
upload_students(i) ==
    \/ StudentsReadStep(i)
    \/ StudentsFindStep(i)
    \/ StudentsUpdateStep(i)
    \/ StudentsInsertStep(i)

\* POST /admin/upload-words as it arrives: upload_words refuses a file that is
\* not named .csv, and else is at file.read
UploadWordsRequest(filename, rows) ==
    IF ~EndsWith(filename, s_csv)
    THEN [pc |-> "done", op |-> "upload_words",
          response |-> [op |-> "upload_words", status |-> 400]]
    ELSE [pc |-> "words_read", op |-> "upload_words", rows |-> rows,
          words_added |-> 0]

\* the request r with the rows that are left of the file: at the find_one of
\* the next row of three fields, or done when there is none
WordsAdvance(r, rows, words_added) ==
    IF FromFullRow(rows) = <<>>
    THEN Done(r, [op |-> "upload_words", status |-> 200,
                  words_added |-> words_added])
    ELSE [pc |-> "words_find", op |-> r.op, rows |-> FromFullRow(rows),
          words_added |-> words_added]

\* upload_words: await file.read
WordsReadStep(i) ==
    /\ reqs[i].pc = "words_read"
    /\ LET r == reqs[i] IN Goes(i, WordsAdvance(r, r.rows, r.words_added))
    /\ UNCHANGED <<students, words, progress, now, tz_aware>>

\* upload_words: await db.words.find_one for the row; a row whose word is in
\* the catalog is passed over
WordsFindStep(i) ==
    /\ reqs[i].pc = "words_find"
    /\ LET r == reqs[i]
           row == Head(r.rows)
           existing == FindWordByEnglish(words, Strip(row[1]),
                                         Lower(Strip(row[2])))
       IN Goes(i, IF existing = 0
                  THEN [pc |-> "words_insert", op |-> r.op, rows |-> r.rows,
                        words_added |-> r.words_added]
                  ELSE WordsAdvance(r, Tail(r.rows), r.words_added))
    /\ UNCHANGED <<students, words, progress, now, tz_aware>>

\* upload_words: await db.words.insert_one, and on to the next row
WordsInsertStep(i) ==
    /\ reqs[i].pc = "words_insert"
    /\ LET r == reqs[i]
           row == Head(r.rows)
       IN /\ words' = Append(words,
                             NewWord(NewWordId(words), Strip(row[1]),
                                     Strip(row[2]), Strip(row[3])))
          /\ Goes(i, WordsAdvance(r, Tail(r.rows), r.words_added + 1))
    /\ UNCHANGED <<students, progress, now, tz_aware>>

\* POST /admin/upload-words: the handler of the request in slot i runs from
\* one await to the next
upload_words(i) ==
    \/ WordsReadStep(i)
    \/ WordsFindStep(i)
    \/ WordsInsertStep(i)

----------------------------------------------------------------------------
(* The server with one request at a time: a request arrives when the one
   before it has its response; between two awaits of its handler the clock
   may move on *)

\* the slot of the requests that arrive one after the other
Sequential == {1}

\* no request is being served
Quiet == \A i \in Slots : Free(i)

\* the bodies of POST /study/answer: for a word of the catalog or for an id
\* that no word has or will have (the ids of the words count from 1)
Sessions(flags) ==
    [student_code : {s_9011},
     word_id : {words[i].id : i \in 1..Len(words)} \cup {0},
     answer : Answers, is_correct : flags]

Tick == Advance(Instants)
StudentLogin ==
    /\ Quiet
    /\ \E i \in Sequential, code \in StudentCodes :
           Accept(i, StudentLoginRequest(code))
AdminLogin ==
    /\ Quiet
    /\ \E i \in Sequential, password \in Passwords :
           Accept(i, admin_login(password))
GetNextWord ==
    /\ Quiet
    /\ \E i \in Sequential, code \in StudentCodes :
           Accept(i, NextWordRequest(code))
SubmitAnswer ==
    /\ Quiet
    /\ \E i \in Sequential, session \in Sessions(BOOLEAN) :
           Accept(i, AnswerRequest(session))
GetStudentStats ==
    /\ Quiet
    /\ \E i \in Sequential, code \in StudentCodes :
           Accept(i, StatsRequest(code))
GetStudentWords ==
    /\ Quiet
    /\ \E i \in Sequential, code \in StudentCodes :
           Accept(i, WordsRequest(code))
UploadStudents ==
    /\ Quiet
    /\ \E i \in Sequential, filename \in FileNames,
          rows \in Files(StudentRows) :
           Accept(i, UploadStudentsRequest(filename, rows))
UploadWords ==
    /\ Quiet
    /\ \E i \in Sequential, filename \in FileNames, rows \in Files(WordRows) :
           Accept(i, UploadWordsRequest(filename, rows))

\* the handler of a request runs from one await to the next
Serve ==
    \E i \in Slots :
        \/ student_login(i)
        \/ get_next_word(i)
        \/ submit_answer(i)
        \/ get_student_stats(i)
        \/ get_student_words(i)
        \/ upload_students(i)
        \/ upload_words(i)

Respond == \E i \in Slots : Return(i)

Next ==
    \/ Tick
    \/ StudentLogin
    \/ AdminLogin
    \/ GetNextWord
    \/ SubmitAnswer
    \/ GetStudentStats
    \/ GetStudentWords
    \/ UploadStudents
    \/ UploadWords
    \/ Serve
    \/ Respond

Spec == Init /\ [][Next]_vars

----------------------------------------------------------------------------
(* The server with overlapping requests: a request arrives in any free slot,
   whatever the handler in the other slot is waiting for *)

\* slot i is free, and a request of a client arrives in it
Arrives(i) ==
    /\ Free(i)
    /\ \/ \E code \in StudentCodes : Accept(i, StudentLoginRequest(code))
       \/ \E password \in Passwords : Accept(i, admin_login(password))
       \/ \E code \in StudentCodes : Accept(i, NextWordRequest(code))
       \/ \E session \in Sessions(BOOLEAN) : Accept(i, AnswerRequest(session))
       \/ \E code \in StudentCodes : Accept(i, StatsRequest(code))
       \/ \E code \in StudentCodes : Accept(i, WordsRequest(code))
       \/ \E filename \in FileNames, rows \in Files(StudentRows) :
              Accept(i, UploadStudentsRequest(filename, rows))
       \/ \E filename \in FileNames, rows \in Files(WordRows) :
              Accept(i, UploadWordsRequest(filename, rows))

NextServer ==
    \/ Tick
    \/ \E i \in Slots : Arrives(i)
    \/ Serve
    \/ Respond

SpecServer == Init /\ [][NextServer]_vars

----------------------------------------------------------------------------
(* The client of one student over a class of three words: it logs in, has
   the files imported, reads the statistics and the word list, asks for the
   next word and answers the word it was given *)

\* midnight of the days 0..MaxDay + 1
DayStarts == {d * MinutesPerDay : d \in 0..(MaxDay + 1)}

CsvFile == <<"f">> \o s_csv

StudyStudentsFile == << <<s_9011, s_Ali, s_5A>> >>

StudyWordsFile == << <<s_5A, s_hello, s_merhaba_selam>>,
                     <<s_5A, s_hi, s_MerhabaSp>>,
                     <<s_5A, s_hey, s_merhaba>> >>

\* the codes the client logs in with: that of the student, and one of no
\* student
StudyLoginCodes == {s_9011, s_9999}

\* the answers the client gives
StudyAnswers == {s_merhaba, s_wrong}

\* the bodies of POST /study/answer the client sends for a word of the
\* catalog: it leaves the verdict to the server
StudySessions ==
    [student_code : {s_9011}, word_id : {words[i].id : i \in 1..Len(words)},
     answer : StudyAnswers, is_correct : {FALSE}]

\* the student the client expects to find, and the words of the class
StudyStudents == << NewStudent(s_9011, s_AliARIKAN, s_5A) >>
StudyWords == UploadWordsLoop(StudyWordsFile, <<>>, 0).words

\* the server is started on an empty database, or on one that holds the
\* student and the class of the client
InitStudy ==
    /\ \/ students = <<>> /\ words = <<>>
       \/ students = StudyStudents /\ words = StudyWords
    /\ progress = <<>>
    /\ now = 0
    /\ reqs = [i \in Slots |-> IdleRequest]
    /\ tz_aware \in BOOLEAN

\* the client of slot i holds a word that get_next_word gave it
HoldsWord(i) ==
    /\ reqs[i].pc = "done" /\ reqs[i].op = "next_word"
    /\ reqs[i].response.status = 200 /\ ~reqs[i].response.completed

StudyTick == Advance(DayStarts)
StudyUploadStudents ==
    /\ Quiet
    /\ \E i \in Sequential :
           Accept(i, UploadStudentsRequest(CsvFile, StudyStudentsFile))
StudyUploadWords ==
    /\ Quiet
    /\ \E i \in Sequential :
           Accept(i, UploadWordsRequest(CsvFile, StudyWordsFile))
StudyStudentLogin ==
    /\ Quiet
    /\ \E i \in Sequential, code \in StudyLoginCodes :
           Accept(i, StudentLoginRequest(code))
StudyAdminLogin ==
    /\ Quiet
    /\ \E i \in Sequential, password \in Passwords :
           Accept(i, admin_login(password))
StudyGetStudentStats ==
    /\ Quiet
    /\ \E i \in Sequential :
           Accept(i, StatsRequest(s_9011))
StudyGetStudentWords ==
    /\ Quiet
    /\ \E i \in Sequential :
           Accept(i, WordsRequest(s_9011))
StudyGetNextWord ==
    /\ Quiet
    /\ \E i \in Sequential :
           Accept(i, NextWordRequest(s_9011))
\* the client answers the word that get_next_word has just given it
StudySubmitAnswer ==
    \E i \in Sequential :
        /\ HoldsWord(i)
        /\ \E session \in StudySessions :
              /\ session.student_code = reqs[i].response.student_code
              /\ session.word_id = reqs[i].response.word_id
              /\ Accept(i, AnswerRequest(session))
StudyServe ==
    \E i \in Slots :
        \/ student_login(i)
        \/ get_next_word(i)
        \/ submit_answer(i)
        \/ get_student_stats(i)
        \/ get_student_words(i)
        \/ upload_students(i)
        \/ upload_words(i)

NextStudy ==
    \/ StudyTick
    \/ StudyStudentLogin
    \/ StudyAdminLogin
    \/ StudyUploadStudents
    \/ StudyUploadWords
    \/ StudyGetStudentStats
    \/ StudyGetStudentWords
    \/ StudyGetNextWord
    \/ StudySubmitAnswer
    \/ StudyServe

SpecStudy == InitStudy /\ [][NextStudy]_vars

----------------------------------------------------------------------------
(* The client while the days go by, served by a server that keeps serving *)

\* midnight of a day of 0..MaxDay comes
LoopTick == Advance({d * MinutesPerDay : d \in 0..MaxDay})
\* the handlers of the imports run from one await to the next
LoopImport == \E i \in Slots : upload_students(i) \/ upload_words(i)
LoopServe ==
    \E i \in Slots :
        \/ student_login(i)
        \/ get_next_word(i)
        \/ submit_answer(i)
        \/ get_student_stats(i)
        \/ get_student_words(i)

NextLoop ==
    \/ LoopTick
    \/ StudyStudentLogin
    \/ StudyAdminLogin
    \/ StudyUploadStudents
    \/ StudyUploadWords
    \/ LoopImport
    \/ StudyGetStudentStats
    \/ StudyGetStudentWords
    \/ StudyGetNextWord
    \/ StudySubmitAnswer
    \/ LoopServe

\* The server keeps serving: the event loop resumes a handler whose await has
\* its result.  The client may stop after any response
SpecLoop ==
    /\ InitStudy /\ [][NextLoop]_vars
    /\ WF_vars(LoopImport)
    /\ WF_vars(LoopServe)

\* the client keeps asking for the next word and keeps answering the word it
\* is given
ClientKeepsOn ==
    /\ SF_vars(StudyGetNextWord)
    /\ SF_vars(StudySubmitAnswer)

----------------------------------------------------------------------------
(* Requests that overlap: the students and the words are imported, then the
   requests of one student for one word arrive while others are served *)

ConcWordsFile == SubSeq(StudyWordsFile, 1, 1)

\* midnight of day 1 comes
ConcTick == Advance({MinutesPerDay})
ConcUploadStudents ==
    /\ students = <<>> \/ words = <<>>
    /\ Quiet
    /\ \E i \in Sequential :
           Accept(i, UploadStudentsRequest(CsvFile, StudyStudentsFile))
ConcUploadWords ==
    /\ words = <<>> /\ Quiet
    /\ \E i \in Sequential :
           Accept(i, UploadWordsRequest(CsvFile, ConcWordsFile))
\* the bodies of POST /study/answer with a right answer for a catalog word
ConcSessions ==
    [student_code : {s_9011}, word_id : {words[i].id : i \in 1..Len(words)},
     answer : {s_SpMERHABA}, is_correct : {FALSE}]

\* the two catalogs have been imported
Ready ==
    /\ students # <<>> /\ words # <<>>
    /\ \A i \in Slots : reqs[i].op \notin {"upload_students", "upload_words"}
                        \/ reqs[i].pc = "done"

ConcSubmitAnswer ==
    /\ Ready
    /\ \E i \in Slots, session \in ConcSessions :
           Accept(i, AnswerRequest(session))
ConcGetNextWord == Ready /\ \E i \in Slots : Accept(i, NextWordRequest(s_9011))
ConcGetStudentStats == Ready /\ \E i \in Slots : Accept(i, StatsRequest(s_9011))
ConcServe ==
    \E i \in Slots :
        \/ get_next_word(i)
        \/ submit_answer(i)
        \/ get_student_stats(i)
ConcRespond == \E i \in Slots : Return(i)

NextConc ==
    \/ ConcTick
    \/ ConcUploadStudents
    \/ ConcUploadWords
    \/ LoopImport
    \/ ConcSubmitAnswer
    \/ ConcGetNextWord
    \/ ConcGetStudentStats
    \/ ConcServe
    \/ ConcRespond

SpecConc == Init /\ [][NextConc]_vars

----------------------------------------------------------------------------
(* Overlapping submissions of one student for the words of a class of two *)

PairsWordsFile == SubSeq(StudyWordsFile, 1, 2)

\* the client decodes the stored dates without tzinfo
InitPairs == Init /\ ~tz_aware

PairsUploadWords ==
    /\ words = <<>> /\ Quiet
    /\ \E i \in Sequential :
           Accept(i, UploadWordsRequest(CsvFile, PairsWordsFile))
PairsServe == \E i \in Slots : submit_answer(i)

NextPairs ==
    \/ ConcUploadStudents
    \/ PairsUploadWords
    \/ LoopImport
    \/ ConcSubmitAnswer
    \/ PairsServe
    \/ ConcRespond

SpecPairs == InitPairs /\ [][NextPairs]_vars

----------------------------------------------------------------------------
(* Imports: files of students and of words, one after the other *)

ImportStudentRows ==
    {<<s_9011, s_Ali, s_5A>>, <<s_Sp9011, s_VeliSp, s_6A>>,
     <<s_9012Nl, s_Ali, s_5A>>, <<s_9011, s_Ali>>}

ImportWordRows ==
    {<<s_5A, s_hello, s_merhaba_selam>>, <<s_5A, s_Hello, s_merhaba>>,
     <<s_6A, s_hello, s_merhaba>>, <<s_5A, s_hello>>}

ImportStudents ==
    /\ Quiet
    /\ \E i \in Sequential, filename \in FileNames,
          rows \in Files(ImportStudentRows) :
           Accept(i, UploadStudentsRequest(filename, rows))
\* a file of words is taken while the catalog has room for its rows
ImportWords ==
    \E i \in Sequential, filename \in FileNames, rows \in Files(ImportWordRows) :
        /\ Len(words) + Len(rows) <= MaxWords
        /\ Accept(i, UploadWordsRequest(filename, rows))
ImportServe == \E i \in Slots : upload_students(i) \/ upload_words(i)

NextImport ==
    \/ ImportStudents
    \/ ImportWords
    \/ ImportServe

SpecImport == Init /\ [][NextImport]_vars

----------------------------------------------------------------------------
(* The judging of answers: one word is imported and answered *)

JudgeWordRows ==
    {<<s_5A, s_hello, turkish>> :
        turkish \in {s_merhaba_selam, s_MerhabaSp, s_merhaba, s_MERHABA_selam,
                     s_merhaba_, s_selam, s_cay}}

JudgeAnswers ==
    {s_merhaba, s_MerhabaSp, s_SpMERHABA, s_merhab, s_mer_haba, s_selam,
     s_SELAMSp, s_merhaba_selam, s_merhaba_, s_sp, s_wrong, s_merhabaNl,
     s_CAYNbsp}

\* the bodies of POST /study/answer for a word of the catalog
JudgeSessions ==
    [student_code : {s_9011}, word_id : {words[i].id : i \in 1..Len(words)},
     answer : JudgeAnswers, is_correct : {FALSE}]

JudgeUploadWords ==
    /\ words = <<>>
    /\ \E i \in Sequential, row \in JudgeWordRows :
           Accept(i, UploadWordsRequest(CsvFile, <<row>>))
JudgeSubmitAnswer ==
    /\ Quiet
    /\ \E i \in Sequential, session \in JudgeSessions :
           Accept(i, AnswerRequest(session))
JudgeServe == \E i \in Slots : upload_words(i) \/ submit_answer(i)

NextJudge ==
    \/ JudgeUploadWords
    \/ JudgeSubmitAnswer
    \/ JudgeServe

SpecJudge == Init /\ [][NextJudge]_vars

----------------------------------------------------------------------------
(* The words of a class arrive one file at a time while a student studies *)

LazyUploadStudents == StudyUploadStudents
LazyUploadWords ==
    /\ Quiet
    /\ \E i \in Sequential, k \in 1..2 :
           Accept(i, UploadWordsRequest(CsvFile, SubSeq(StudyWordsFile, k, k)))
LazyGetNextWord ==
    /\ Quiet
    /\ \E i \in Sequential, code \in StudentCodes :
           Accept(i, NextWordRequest(code))
LazySubmitAnswer ==
    /\ Quiet
    /\ \E i \in Sequential, session \in Sessions({FALSE}) :
           Accept(i, AnswerRequest(session))

LazyServe ==
    \E i \in Slots :
        \/ get_next_word(i)
        \/ submit_answer(i)
        \/ upload_students(i)
        \/ upload_words(i)

NextLazy ==
    \/ LazyUploadStudents
    \/ LazyUploadWords
    \/ LazyGetNextWord
    \/ LazySubmitAnswer
    \/ LazyServe

SpecLazy == Init /\ [][NextLazy]_vars

----------------------------------------------------------------------------
(* What the claims speak of *)

\* the UTC calendar day of an instant
Day(t) == t \div MinutesPerDay

WordIds == {words[i].id : i \in 1..Len(words)}

HasProgress(pr, s, w) == FindProgress(pr, s, w) # 0

\* the progress record of the pair (s, w)
Rec(pr, s, w) == pr[FindProgress(pr, s, w)]

\* the student's eligible list in the current state: what
\* get_student_words_for_study returns when it is served now
EligibleList(s) ==
    get_student_words_for_study(students, words, progress, s, tz_aware,
                                Steady(now, Len(words))).list

EligibleIds(s) ==
    LET list == EligibleList(s) IN {list[i].word.id : i \in 1..Len(list)}

\* s is a student of the catalog and w a word of the student's class
InClass(s, w) ==
    /\ FindStudent(students, s) # 0
    /\ \E i \in 1..Len(words) :
           /\ words[i].id = w
           /\ words[i].class_level = students[FindStudent(students, s)].class_level

\* the step is one of the handler of the request in slot i
Runs(i) == reqs[i].pc \notin {"idle", "done"} /\ reqs'[i] # reqs[i]

\* the step gives the request in slot i its response
Responds(i) == reqs'[i] # reqs[i] /\ reqs'[i].pc = "done"

\* the step gives a submit_answer that found its word its response
Answered(i) ==
    /\ Responds(i)
    /\ reqs'[i].op = "answer" /\ reqs'[i].response.status = 200

\* slot i holds the response to a request of the kind op
Has(i, op) == reqs[i].pc = "done" /\ reqs[i].op = op

\* the box the scheduler takes the pair to be in
BoxOf(pr, s, w) == IF HasProgress(pr, s, w) THEN Rec(pr, s, w).box_number ELSE 1

----------------------------------------------------------------------------
(* Claims *)

\* C1: a correct answer to a pair whose current box is b (the stored
\* box_number, 1 without a progress record) stores and returns b + 1 when b is
\* in 1..4, and 5 when b is 5.
C1_CorrectAnswerPromotes ==
    [][\A i \in Slots :
         (Answered(i) /\ reqs'[i].response.is_correct) =>
         LET s == reqs[i].session.student_code
             w == reqs[i].session.word_id
             b == BoxOf(progress, s, w)
         IN /\ b \in 1..4 => /\ reqs'[i].response.new_box = b + 1
                             /\ HasProgress(progress', s, w)
                             /\ Rec(progress', s, w).box_number = b + 1
            /\ b = 5 => /\ reqs'[i].response.new_box = 5
                        /\ Rec(progress', s, w).box_number = 5]_vars

\* a correct answer was given to a word in box 5, and it stayed there
C1_Witness ==
    /\ Has(1, "answer")
    /\ reqs[1].response.status = 200 /\ reqs[1].response.is_correct
    /\ reqs[1].response.message.template = "stays_in_last_box"
    /\ reqs[1].response.new_box = 5
    /\ Rec(progress, reqs[1].session.student_code,
           reqs[1].session.word_id).box_number = 5

\* C2: an incorrect answer never demotes: for every current box b in 1..5 the
\* stored and the returned box after the submission are b.
C2_WrongAnswerKeepsBox ==
    [][\A i \in Slots :
         (Answered(i) /\ ~reqs'[i].response.is_correct) =>
         LET s == reqs[i].session.student_code
             w == reqs[i].session.word_id
             b == BoxOf(progress, s, w)
         IN b \in 1..5 => /\ reqs'[i].response.new_box = b
                          /\ HasProgress(progress', s, w)
                          /\ Rec(progress', s, w).box_number = b]_vars

\* a wrong answer was given to a word in box 2, and it stayed in box 2
C2_Witness ==
    /\ Has(1, "answer")
    /\ reqs[1].response.status = 200 /\ ~reqs[1].response.is_correct
    /\ reqs[1].response.new_box = 2
    /\ Rec(progress, reqs[1].session.student_code,
           reqs[1].session.word_id).box_number = 2

\* C3: in every reachable state every progress record has box_number in 1..5.
C3_BoxInRange ==
    \A i \in 1..Len(progress) : progress[i].box_number \in 1..5

\* the statistics were served while a record is in box 5
C3_Witness ==
    /\ Has(1, "stats") /\ reqs[1].response.status = 200
    /\ reqs[1].response.box_distribution[5] >= 1
    /\ \E i \in 1..Len(progress) : progress[i].box_number = 5

\* C4: the midnight rule: a word of the student's class whose progress is in
\* box 1..4 is in the eligible list iff its last_studied_date is null or lies
\* on a UTC calendar day strictly before the current one.
C4_MidnightRule ==
    \A s \in StudentCodes, w \in WordIds :
        (InClass(s, w) /\ HasProgress(progress, s, w)
            /\ Rec(progress, s, w).box_number \in 1..4) =>
        LET d == Rec(progress, s, w).last_studied_date
        IN (w \in EligibleIds(s)) <=> (d = None \/ Day(d) < Day(now))

\* the pair's record is in box 5 and has been studied
Box5Studied(pr, s, w) ==
    /\ HasProgress(pr, s, w)
    /\ Rec(pr, s, w).box_number = 5
    /\ Rec(pr, s, w).last_studied_date # None

\* C5: a word in box 5 with a non-null last_studied_date stays so and is never
\* in the student's eligible list, whatever time passes and whatever runs.
C5_Box5NeverEligible ==
    /\ [](\A s \in StudentCodes, w \in WordIds :
            Box5Studied(progress, s, w) => w \notin EligibleIds(s))
    /\ [][\A s \in StudentCodes, w \in WordIds :
            Box5Studied(progress, s, w) => Box5Studied(progress', s, w)]_vars

\* a day after its last study a box-5 word of the student's class is not
\* offered: the student is told the day's study is complete
C5_Witness ==
    /\ Has(1, "next_word")
    /\ reqs[1].response.status = 200 /\ reqs[1].response.completed
    /\ InClass(reqs[1].response.student_code, 1)
    /\ Box5Studied(progress, reqs[1].response.student_code, 1)
    /\ Day(Rec(progress, reqs[1].response.student_code, 1).last_studied_date)
           < Day(now)

\* C7: a word of the student's class that the student never answered (no
\* progress record, or one with a null last_studied_date) is in the eligible
\* list on every day, with box 1.
C7_NeverAnsweredEligible ==
    \A s \in StudentCodes, w \in WordIds :
        (InClass(s, w) /\ (HasProgress(progress, s, w) =>
                              Rec(progress, s, w).last_studied_date = None)) =>
        \E i \in 1..Len(EligibleList(s)) :
            /\ EligibleList(s)[i].word.id = w
            /\ EligibleList(s)[i].box = 1

\* C8: submit_answer stamps last_studied_date with the instant it reads from
\* the clock, whether the answer was correct or not; a word studied on the
\* current day is not in the eligible list, and a word of the student's class
\* below box 5 that was studied on an earlier day is.
C8_AnswerStampsDate ==
    /\ [][\A i \in Slots :
            Answered(i) =>
            LET s == reqs[i].session.student_code
                w == reqs[i].session.word_id
            IN /\ HasProgress(progress', s, w)
               /\ Rec(progress', s, w).last_studied_date
                      = reqs[i].last_studied_date
               /\ reqs[i].last_studied_date \in 0..now]_vars
    /\ [](\A s \in StudentCodes, w \in WordIds :
            (HasProgress(progress, s, w)
                /\ Rec(progress, s, w).last_studied_date # None) =>
            LET r == Rec(progress, s, w) IN
            /\ Day(r.last_studied_date) = Day(now) => w \notin EligibleIds(s)
            /\ (Day(r.last_studied_date) < Day(now) /\ r.box_number < 5
                   /\ InClass(s, w)) => w \in EligibleIds(s))

\* C9: the box of a pair moves at most once within one UTC calendar day: an
\* answer to a word already studied today does not move its box.
C9_OncePerDay ==
    [][\A s \in StudentCodes, w \in WordIds :
          (HasProgress(progress, s, w)
              /\ Rec(progress, s, w).last_studied_date # None
              /\ Day(Rec(progress, s, w).last_studied_date) = Day(now)) =>
          Rec(progress', s, w).box_number = Rec(progress, s, w).box_number]_vars

\* the words that sections 4.2.3 and 4.2.4 of the specification make eligible
EligibleSet(st, ws, pr, s, t) ==
    {w \in {ws[i].id : i \in 1..Len(ws)} :
        /\ FindStudent(st, s) # 0
        /\ ws[FindWordById(ws, w)].class_level = st[FindStudent(st, s)].class_level
        /\ \/ ~HasProgress(pr, s, w)
           \/ Rec(pr, s, w).last_studied_date = None
           \/ /\ Rec(pr, s, w).box_number < 5
              /\ Day(Rec(pr, s, w).last_studied_date) < Day(t)}

\* word a is listed before word b: below box 5 first, by box descending, then
\* box 5; within one box in catalog order
ListedBefore(ws, pr, s, a, b) ==
    LET ba == BoxOf(pr, s, a)
        bb == BoxOf(pr, s, b)
        catalog == FindWordById(ws, a) < FindWordById(ws, b)
    IN \/ ba < 5 /\ bb = 5
       \/ ba < 5 /\ bb < 5 /\ (ba > bb \/ (ba = bb /\ catalog))
       \/ ba = 5 /\ bb = 5 /\ catalog

\* C6: the eligible list holds the eligible words, those below box 5 first, by
\* box descending and within a box in catalog order, then those in box 5 in
\* catalog order; get_next_word returns its head and its length.
C6_EligibleListOrder ==
    /\ [](\A s \in StudentCodes :
            LET list == EligibleList(s)
                eligible == EligibleSet(students, words, progress, s, now)
            IN /\ Len(list) = Cardinality(eligible)
               /\ \A i \in 1..Len(list) :
                      /\ list[i].word.id \in eligible
                      /\ list[i].box = BoxOf(progress, s, list[i].word.id)
               /\ \A i, j \in 1..Len(list) :
                      i < j => ListedBefore(words, progress, s,
                                            list[i].word.id, list[j].word.id))
    /\ [][\A i \in Slots :
          (Responds(i) /\ reqs'[i].op = "next_word") =>
          LET last == reqs'[i].response
              s == last.student_code
              eligible == EligibleSet(students, words, progress, s, now)
          IN /\ last.status = 200
             /\ IF eligible = {} THEN last.completed
                ELSE
                  /\ ~last.completed
                  /\ last.remaining_words = Cardinality(eligible)
                  /\ last.word_id \in eligible
                  /\ last.current_box = BoxOf(progress, s, last.word_id)
                  /\ \A b \in eligible \ {last.word_id} :
                         ListedBefore(words, progress, s, last.word_id, b)]_vars

\* C10: no box transition is lost: when two submit_answer requests with correct
\* answers for the same pair arrive while the pair is in box b <= 3 and both
\* have been served, the pair is in box b + 2.
C10_NoLostUpdate ==
    \A i, j \in Slots :
        (/\ i # j
         /\ Has(i, "answer") /\ Has(j, "answer")
         /\ reqs[i].response.status = 200 /\ reqs[j].response.status = 200
         /\ reqs[i].session.student_code = reqs[j].session.student_code
         /\ reqs[i].session.word_id = reqs[j].session.word_id
         /\ reqs[i].response.is_correct /\ reqs[j].response.is_correct
         /\ reqs[i].box_on_arrival = reqs[j].box_on_arrival
         /\ reqs[i].box_on_arrival <= 3) =>
        BoxOf(progress, reqs[i].session.student_code, reqs[i].session.word_id)
            = reqs[i].box_on_arrival + 2

\* C11: in every reachable state, under any interleaving of concurrent
\* get_next_word, get_student_stats and submit_answer requests, the progress
\* collection holds at most one record per (student_code, word_id) pair.
C11_OneRecordPerPair ==
    \A i, j \in 1..Len(progress) :
        (/\ progress[i].student_code = progress[j].student_code
         /\ progress[i].word_id = progress[j].word_id) => i = j

\* the record pr[k] belongs to the pair of the session
OfPair(pr, k, session) ==
    /\ pr[k].student_code = session.student_code
    /\ pr[k].word_id = session.word_id

\* C12: submit_answer changes only the progress record of its (student, word)
\* pair, also while a submission for another pair is being served: no step of
\* a submission changes a student or a word, and the step that writes leaves
\* every record of another pair as it was and adds no record of another pair.
C12_SubmitFrame ==
    [][\A i \in Slots :
          (Runs(i) /\ reqs[i].op = "answer") =>
          /\ students' = students
          /\ words' = words
          /\ progress' # progress =>
                /\ reqs[i].pc = "update" /\ reqs'[i].pc = "done"
                /\ Len(progress') >= Len(progress)
                /\ \A k \in 1..Len(progress) :
                       ~OfPair(progress, k, reqs[i].session) =>
                           progress'[k] = progress[k]
                /\ \A k \in (Len(progress) + 1)..Len(progress') :
                       OfPair(progress', k, reqs[i].session)]_vars

\* two submissions for different words have been served at the same time, a
\* first answer to one word and a second answer to the other
C12_Witness ==
    /\ reqs[1].pc = "done" /\ reqs[2].pc = "done"
    /\ reqs[1].op = "answer" /\ reqs[2].op = "answer"
    /\ reqs[1].response.status = 200 /\ reqs[2].response.status = 200
    /\ reqs[1].session.word_id # reqs[2].session.word_id
    /\ reqs[1].response.new_box = 2 /\ reqs[2].response.new_box = 3
    /\ BoxOf(progress, s_9011, reqs[1].session.word_id) = 2
    /\ BoxOf(progress, s_9011, reqs[2].session.word_id) = 3

\* C13: the client's is_correct flag has no influence: in every reachable
\* state two submit_answer calls that differ only in the flag give the same
\* status and the same is_correct, new_box and message, and leave the same
\* progress collection (so the same stored box_number); and a submission that
\* is served leaves the progress collection and gives the response of such a
\* call.
C13_FlagIgnored ==
    /\ [](\A session \in Sessions({TRUE}) :
            LET flagged == submit_answer_result(session, now)
                unflagged == submit_answer_result(
                                 [session EXCEPT !.is_correct = FALSE], now)
            IN /\ flagged.progress = unflagged.progress
               /\ flagged.response.status = unflagged.response.status
               /\ flagged.response.status = 200 =>
                     /\ flagged.response.is_correct = unflagged.response.is_correct
                     /\ flagged.response.new_box = unflagged.response.new_box
                     /\ flagged.response.message = unflagged.response.message)
    /\ [][\A i \in Slots :
            (Responds(i) /\ reqs'[i].op = "answer") =>
            LET call == submit_answer_result(reqs'[i].session,
                            IF reqs[i].pc = "update"
                            THEN reqs[i].last_studied_date ELSE now)
            IN /\ progress' = call.progress
               /\ reqs'[i].response = call.response]_vars

\* the client called a wrong answer correct: it was judged wrong and the word
\* stayed in box 2
C13_Witness ==
    /\ Has(1, "answer") /\ reqs[1].response.status = 200
    /\ reqs[1].session.is_correct /\ ~reqs[1].response.is_correct
    /\ reqs[1].response.new_box = 2
    /\ reqs[1].response.message.template = "wrong_stays"
    /\ BoxOf(progress, reqs[1].session.student_code,
             reqs[1].session.word_id) = 2

\* C14: submit_answer for a word id that no word of the catalog has answers
\* 404 and leaves the progress collection as it was: no record is created or
\* updated and no last_studied_date is stamped.
C14_UnknownWordNotFound ==
    [][\A i \in Slots :
          (/\ Runs(i) /\ reqs[i].op = "answer"
           /\ \A k \in 1..Len(words) : words[k].id # reqs[i].session.word_id) =>
          /\ reqs'[i].pc = "done"
          /\ reqs'[i].response.status = 404
          /\ progress' = progress]_vars

\* an answer for an unknown word id was refused while the student has a
\* record for another word, and no record exists for the unknown id
C14_Witness ==
    /\ Has(1, "answer") /\ reqs[1].response.status = 404
    /\ \A k \in 1..Len(words) : words[k].id # reqs[1].session.word_id
    /\ Len(progress) >= 1
    /\ ~HasProgress(progress, reqs[1].session.student_code,
                    reqs[1].session.word_id)

\* the student code of a response to a request that takes one
CodeOf(response) ==
    IF response.op = "auth_student" THEN response.code ELSE response.student_code

\* C15: student_login, get_next_word, get_student_stats and get_student_words
\* answer 404 when the code matches no student of the catalog, and create no
\* progress record for it.
C15_UnknownStudentNotFound ==
    [][\A i \in Slots :
          (/\ Responds(i)
           /\ reqs'[i].op \in {"auth_student", "next_word", "stats", "words"}
           /\ FindStudent(students, CodeOf(reqs'[i].response)) = 0) =>
          /\ reqs'[i].response.status = 404
          /\ progress' = progress]_vars

\* the progress records of the student that are in box b
InBox(pr, student_code, b) ==
    {k \in 1..Len(pr) : pr[k].student_code = student_code /\ pr[k].box_number = b}

\* C16: get_student_stats answers every request for a student of the catalog
\* with a box_distribution that has exactly the keys of the boxes 1..5, each
\* with the number of the student's progress records that are in that box as
\* the response is given (0 when there are none).
C16_BoxDistribution ==
    [][\A i \in Slots :
          (/\ Responds(i) /\ reqs'[i].op = "stats"
           /\ FindStudent(students, reqs'[i].response.student_code) # 0) =>
          LET response == reqs'[i].response
          IN /\ response.status = 200
             /\ DOMAIN response.box_distribution = 1..5
             /\ \A b \in 1..5 :
                    response.box_distribution[b] =
                        Cardinality(InBox(progress', response.student_code,
                                          b))]_vars

\* C17: get_student_stats only reads: a step of its handler leaves the
\* students, words and progress collections exactly as they were.
C17_StatsReadOnly ==
    [][\A i \in Slots :
          (Runs(i) /\ reqs[i].op = "stats") =>
          /\ students' = students
          /\ words' = words
          /\ progress' = progress]_vars

\* C18: upload_words de-duplicates by (class_level, english lowercased): no
\* two words of the catalog share that key, and importing a file again right
\* after it was imported adds nothing and leaves the catalog as it is.
C18_WordsDeduplicated ==
    /\ \A i, j \in 1..Len(words) :
           (/\ words[i].class_level = words[j].class_level
            /\ Lower(words[i].english) = Lower(words[j].english)) => i = j
    /\ \A rows \in Files(ImportWordRows) :
           LET once == UploadWordsLoop(rows, words, 0)
               again == UploadWordsLoop(rows, once.words, 0)
           IN again.added = 0 /\ again.words = once.words

\* the codes of the student catalog st
Codes(st) == {st[i].code : i \in 1..Len(st)}

\* students_added and students_updated of the request r of upload_students,
\* as its loop has counted them
Counted(r) ==
    IF r.pc = "done"
    THEN <<r.response.students_added, r.response.students_updated>>
    ELSE <<r.students_added, r.students_updated>>

\* C19: upload_students upserts by code.  Each code has one student record;
\* the handler updates for a row whose code is in the catalog and inserts for
\* a row whose code is new; the update overwrites the name and class_level of
\* that student, leaves the others as they are and counts one update; the
\* insert appends a student with the row's fields and counts one addition.
C19_StudentsUpserted ==
    /\ [](\A i, j \in 1..Len(students) :
              students[i].code = students[j].code => i = j)
    /\ [][\A i \in Slots :
            (Runs(i) /\ reqs[i].pc \in {"students_update", "students_insert"}) =>
            LET row == Head(reqs[i].rows)
                code == Strip(row[1])
                imported == [code |-> code, name |-> Strip(row[2]),
                             class_level |-> Strip(row[3])]
                before == Counted(reqs[i])
                after == Counted(reqs'[i])
            IN IF code \in Codes(students)
               THEN /\ reqs[i].pc = "students_update"
                    /\ after = <<before[1], before[2] + 1>>
                    /\ Len(students') = Len(students)
                    /\ \A k \in 1..Len(students) :
                           students'[k] = IF students[k].code = code
                                          THEN imported ELSE students[k]
               ELSE /\ reqs[i].pc = "students_insert"
                    /\ after = <<before[1] + 1, before[2]>>
                    /\ students' = Append(students, imported)]_vars
    /\ [][\A i \in Slots :
            (Runs(i) /\ reqs[i].op = "upload_students"
                /\ reqs[i].pc \notin {"students_update", "students_insert"}) =>
            /\ students' = students
            /\ Counted(reqs'[i]) = Counted(reqs[i])]_vars

\* the student 9011, imported as Ali of class 5A, has been imported again as
\* Veli of class 6A beside the student 9012: one update, no addition
C19_Witness ==
    /\ Has(1, "upload_students") /\ reqs[1].response.status = 200
    /\ reqs[1].response.students_added = 0
    /\ reqs[1].response.students_updated = 1
    /\ Len(students) = 2
    /\ students[1] = [code |-> s_9011, name |-> s_Veli, class_level |-> s_6A]
    /\ students[2].code = s_9012

\* the whitespace characters of the model's alphabet, U+0000..U+00FF
Whitespace ==
    {" ", "\t", "\n", "\r", "\f", "", "", "", "", "",
     "", " "}

\* the letters of the alphabet in upper and in lower case
CasePairs ==
    {<<"A","a">>, <<"B","b">>, <<"C","c">>, <<"D","d">>, <<"E","e">>,
     <<"F","f">>, <<"G","g">>, <<"H","h">>, <<"I","i">>, <<"J","j">>,
     <<"K","k">>, <<"L","l">>, <<"M","m">>, <<"N","n">>, <<"O","o">>,
     <<"P","p">>, <<"Q","q">>, <<"R","r">>, <<"S","s">>, <<"T","t">>,
     <<"U","u">>, <<"V","v">>, <<"W","w">>, <<"X","x">>, <<"Y","y">>,
     <<"Z","z">>, <<"À","à">>, <<"Á","á">>, <<"Â","â">>, <<"Ã","ã">>,
     <<"Ä","ä">>, <<"Å","å">>, <<"Æ","æ">>, <<"Ç","ç">>, <<"È","è">>,
     <<"É","é">>, <<"Ê","ê">>, <<"Ë","ë">>, <<"Ì","ì">>, <<"Í","í">>,
     <<"Î","î">>, <<"Ï","ï">>, <<"Ð","ð">>, <<"Ñ","ñ">>, <<"Ò","ò">>,
     <<"Ó","ó">>, <<"Ô","ô">>, <<"Õ","õ">>, <<"Ö","ö">>, <<"Ø","ø">>,
     <<"Ù","ù">>, <<"Ú","ú">>, <<"Û","û">>, <<"Ü","ü">>, <<"Ý","ý">>,
     <<"Þ","þ">>}

\* s without the whitespace around it
Trimmed(s) ==
    LET inner == {i \in 1..Len(s) : s[i] \notin Whitespace}
    IN IF inner = {} THEN <<>>
       ELSE SubSeq(s, CHOOSE i \in inner : \A k \in inner : i <= k,
                      CHOOSE j \in inner : \A k \in inner : k <= j)

\* a and b are the same character up to case
SameLetter(a, b) == a = b \/ <<a, b>> \in CasePairs \/ <<b, a>> \in CasePairs

\* x and y are equal once both are trimmed and put in lower case
EqualNormalized(x, y) ==
    /\ Len(Trimmed(x)) = Len(Trimmed(y))
    /\ \A i \in 1..Len(Trimmed(x)) : SameLetter(Trimmed(x)[i], Trimmed(y)[i])

\* C20: an answer is judged correct iff, after trimming the whitespace around
\* them and lowercasing both, it is equal to at least one of the word's
\* meanings; no other answer is correct.
C20_JudgedByNormalizedEquality ==
    \A i \in Slots :
        (Has(i, "answer") /\ reqs[i].response.status = 200) =>
            (reqs[i].response.is_correct <=>
                \E k \in 1..Len(reqs[i].response.correct_answers) :
                    EqualNormalized(reqs[i].response.correct_answers[k],
                                    reqs[i].session.answer))

\* the answer "\xc7AY" followed by a no-break space, to a word whose only
\* meaning is "\xe7ay", was judged correct
C20_Witness ==
    /\ Has(1, "answer") /\ reqs[1].response.status = 200
    /\ reqs[1].session.answer = s_CAYNbsp
    /\ reqs[1].response.correct_answers = <<s_cay>>
    /\ reqs[1].response.is_correct

\* C21: once get_next_word has been served for a student of the catalog, the
\* student has a progress record for every word of the class; every step of
\* the request leaves the records that were there as they were, and a record
\* it creates is a record of the student in box 1 with a null
\* last_studied_date.
C21_LazyCreation ==
    /\ [][\A i \in Slots :
            (Runs(i) /\ reqs[i].op = "next_word") =>
            /\ Len(progress') >= Len(progress)
            /\ SubSeq(progress', 1, Len(progress)) = progress
            /\ \A k \in (Len(progress) + 1)..Len(progress') :
                   /\ progress'[k].student_code = reqs[i].student_code
                   /\ InClass(reqs[i].student_code, progress'[k].word_id)
                   /\ progress'[k].box_number = 1
                   /\ progress'[k].last_studied_date = None]_vars
    /\ [][\A i \in Slots :
            (/\ Responds(i) /\ reqs'[i].op = "next_word"
             /\ reqs'[i].response.status = 200
             /\ FindStudent(students, reqs[i].student_code) # 0) =>
            \A w \in WordIds :
                InClass(reqs[i].student_code, w) =>
                    HasProgress(progress', reqs[i].student_code, w)]_vars

\* the first word was answered before the second was imported; the next
\* get_next_word created the record of the second word and left the first
\* word's record in box 2
C21_Witness ==
    /\ Has(1, "next_word") /\ reqs[1].response.status = 200
    /\ Len(words) = 2 /\ Len(progress) = 2
    /\ progress[1].box_number = 2 /\ progress[1].last_studied_date # None
    /\ progress[2] = NewProgress(s_9011, words[2].id)
    /\ ~reqs[1].response.completed /\ reqs[1].response.word_id = words[2].id

\* C22: only submit_answer changes the study state.  A step of get_next_word,
\* get_student_stats, get_student_words, upload_students or upload_words
\* leaves every existing progress record as it was; the step of submit_answer
\* that writes, for a word of the catalog, writes both fields of the pair's
\* record, box_number to the box it returns and last_studied_date to the
\* instant the handler read from the clock, and leaves the other records as
\* they were.
C22_OnlySubmitChangesStudyState ==
    /\ [][\A i \in Slots :
             (Runs(i) /\ reqs[i].op \in {"next_word", "stats", "words",
                                         "upload_students", "upload_words"}) =>
             /\ Len(progress') >= Len(progress)
             /\ SubSeq(progress', 1, Len(progress)) = progress]_vars
    /\ [][\A i \in Slots :
             Answered(i) =>
             LET s == reqs[i].session.student_code
                 w == reqs[i].session.word_id
             IN /\ HasProgress(progress', s, w)
                /\ Rec(progress', s, w).box_number = reqs'[i].response.new_box
                /\ Rec(progress', s, w).last_studied_date
                       = reqs[i].last_studied_date
                /\ reqs[i].last_studied_date \in 0..now
                /\ \A k \in 1..Len(progress) :
                       (progress[k].student_code # s \/ progress[k].word_id # w) =>
                           progress'[k] = progress[k]]_vars
    /\ [][\A i \in Slots :
             (Runs(i) /\ reqs[i].op = "answer" /\ ~Answered(i)) =>
             progress' = progress]_vars

\* the statistics were served on a day after the student took the word to
\* box 3: the record is still in box 3 with the date of the earlier day
C22_Witness ==
    /\ Has(1, "stats") /\ reqs[1].response.status = 200
    /\ HasProgress(progress, reqs[1].response.student_code, 1)
    /\ Rec(progress, reqs[1].response.student_code, 1).box_number = 3
    /\ Rec(progress, reqs[1].response.student_code, 1).last_studied_date # None
    /\ Day(Rec(progress, reqs[1].response.student_code, 1).last_studied_date)
           < Day(now)

\* C23: in every state reachable by requests served one at a time, a progress
\* record above box 1 has a last_studied_date; so no record in box 5 has a
\* null date, no entry of an eligible list is in box 5, and get_next_word
\* never returns current_box = 5.
C23_StudiedAboveBoxOne ==
    /\ \A i \in 1..Len(progress) :
           progress[i].box_number > 1 => progress[i].last_studied_date # None
    /\ \A s \in StudentCodes :
           \A i \in 1..Len(EligibleList(s)) : EligibleList(s)[i].box < 5
    /\ \A i \in Slots :
           (Has(i, "next_word") /\ reqs[i].response.status = 200
               /\ ~reqs[i].response.completed) =>
           reqs[i].response.current_box < 5

\* a day after the word reached box 4 it is offered again, with current_box 4
C23_Witness ==
    /\ Has(1, "next_word") /\ reqs[1].response.status = 200
    /\ ~reqs[1].response.completed
    /\ reqs[1].response.current_box = 4
    /\ Rec(progress, s_9011, reqs[1].response.word_id).box_number = 4
    /\ Rec(progress, s_9011, reqs[1].response.word_id).last_studied_date # None
    /\ Len(EligibleList(s_9011)) = 1

\* the response get_next_word would give the student s on the progress
\* collection pr when it is served at time t
Following(pr, s, t) ==
    LET r == get_student_words_for_study(students, words, pr, s, tz_aware,
                                         Steady(t, Len(words)))
    IN IF r.exception # "" THEN ServerError("next_word", s)
       ELSE NextWordResponse(s, r.list)

\* get_next_word has told the student that words remain
WordsRemain == HoldsWord(1)

\* get_next_word has told the student that the day's study is complete
DayCompleted ==
    /\ Has(1, "next_word")
    /\ reqs[1].response.status = 200 /\ reqs[1].response.completed

\* get_next_word would tell the student s now that the day's study is complete
WouldComplete(s) ==
    LET following == Following(progress, s, now)
    IN following.status = 200 /\ following.completed

\* C24: the study loop makes progress.  When the student answers the word at
\* the head of the eligible list, within the day, the following get_next_word
\* returns remaining_words lower by exactly 1, or completed when it was 1;
\* once get_next_word would answer completed it goes on doing so while the
\* day and the catalogs stay the same; and a client that keeps asking and
\* answering receives completed before the day ends.
C24_StudyLoopProgress ==
    /\ [][\A i \in Slots :
             LET s == reqs[i].session.student_code
                 list == EligibleList(s)
             IN (/\ Answered(i)
                 /\ list # <<>>
                 /\ list[1].word.id = reqs[i].session.word_id
                 /\ Day(reqs[i].last_studied_date) = Day(now)) =>
                LET following == Following(progress', s, now)
                IN /\ following.status = 200
                   /\ IF Len(list) = 1 THEN following.completed
                      ELSE /\ ~following.completed
                           /\ following.remaining_words = Len(list) - 1]_vars
    /\ [][(WouldComplete(s_9011) /\ Day(now') = Day(now)
              /\ students' = students /\ words' = words) =>
             LET following == Following(progress', s_9011, now')
             IN following.status = 200 /\ following.completed]_vars
    /\ ClientKeepsOn =>
           \A d \in 0..MaxDay :
               (WordsRemain /\ Day(now) = d) ~> (DayCompleted \/ Day(now) > d)

====
